---- MODULE Spec2Model ----
(***************************************************************************)
(* Model of server/web/__init__.py of logistics-wizard: the Flask          *)
(* application factory create_app, its three error handlers, and the       *)
(* Service Discovery life cycle (register, signal/atexit hooks,            *)
(* deregister_app, destroy_app).                                           *)
(*                                                                         *)
(* The process has one main thread.  Python runs signal handlers on the    *)
(* main thread, nested on top of whatever the thread is executing, so the  *)
(* running handlers form a stack of frames; only the top frame advances.   *)
(***************************************************************************)
EXTENDS Integers, Sequences, FiniteSets, TLC

\* ------------------------------------------------------------------------
\* Bounds of the exploration
\* ------------------------------------------------------------------------
MaxSignals == 2
MaxHeartbeats == 1

\* ------------------------------------------------------------------------
\* Values
\* ------------------------------------------------------------------------
\* exit(0) in exit_app
ExitOk == 0

\* Statuses the code does not choose: none while the process runs, 1 when an
\* uncaught exception ends the program, 143 when SIGTERM kills it.
Status == [running |-> -1, error |-> 1, killed |-> 143]
NoCode == Status.running
ExitError == Status.error
ExitKilled == Status.killed

Signals == {"SIGTERM", "SIGINT"}
AllHooks == {"SIGTERM", "SIGINT", "atexit"}

\* Outcomes of the two calls into the discovery registry client.
\*   register:   the call registers the service; it fails by raising; or it
\*               returns with the publisher left unregistered.
\*   deregister: the call deregisters and clears the flag; it fails by
\*               raising; it returns with the flag still set; or the
\*               registry never answers and the call, made without a
\*               timeout, never ends.
RegisterOutcomes == {"registered", "RegistryUnavailable", "not_registered"}
DeregisterOutcomes ==
    {"deregistered", "RegistryUnavailable", "still_registered", "no_answer"}

VARIABLES
    sdStatus,       \* Config.SD_STATUS
    vcap,           \* env.get('VCAP_APPLICATION') is not None
    pc,             \* position of the main thread
    registered,     \* publisher.registered
    armed,          \* hooks installed by create_app
    stack,          \* frames of exit_app / destroy_app being executed
    exitCode,       \* exit status of the process, NoCode while it runs
    signals,        \* number of signals delivered so far
    regCalls,       \* calls of publisher.register_service
    deregCalls,     \* calls of publisher.deregister_service
    hbCalls,        \* heartbeats sent by the publisher's heartbeat thread
    regOutcome,     \* outcome of the register call, "none" before it
    served,         \* create_app has returned the application
    trigger,        \* first shutdown trigger, "none" before it
    trigRegistered, \* the coordinator was Registered when it fired
    derEntered,     \* invocations of deregister_app started
    derReturned,    \* invocations of deregister_app that returned
    overlap,        \* an invocation started while another was active
    derFailed,      \* a deregister call failed by raising
    unregSignal,    \* a signal met the armed hooks with the flag not set
    lastReq,        \* the last request dispatched
    lastOut         \* what its handler logged and returned

lifeVars == <<sdStatus, vcap, pc, registered, armed, stack, exitCode, signals,
              regCalls, deregCalls, hbCalls, regOutcome, served, trigger,
              trigRegistered, derEntered, derReturned, overlap, derFailed,
              unregSignal>>
webVars == <<lastReq, lastOut>>
vars == <<sdStatus, vcap, pc, registered, armed, stack, exitCode, signals,
          regCalls, deregCalls, hbCalls, regOutcome, served, trigger,
          trigRegistered, derEntered, derReturned, overlap, derFailed,
          unregSignal, lastReq, lastOut>>

\* ------------------------------------------------------------------------
\* Failures and responses
\* ------------------------------------------------------------------------
\* A failure raised while a request is handled.  message is the text the
\* exception carries; ascii tells whether that text is a byte string the
\* default codec can decode (unicode(e) raises UnicodeDecodeError otherwise).
NoDetails == "<none>"

\* The APIException classes and their status codes.
ApiStatus ==
    [APIException |-> {500}, ValidationError |-> {400},
     NotFoundError |-> {404}, AuthenticationError |-> {401, 403},
     InternalError |-> {500}]

ApiClasses == DOMAIN ApiStatus

ApiMessages == {"Invalid input"}

ApiFailures ==
    UNION { { [cls |-> c, status_code |-> s, message |-> m,
               internal_details |-> d, ascii |-> TRUE] :
                 s \in ApiStatus[c], m \in ApiMessages,
                 d \in {NoDetails, "trace: db down"} } : c \in ApiClasses }

OtherFailures ==
    { [cls |-> c, status_code |-> 0, message |-> m,
       internal_details |-> NoDetails, ascii |-> a] :
         c \in {"KeyError"},
         m \in {"boom", "/etc/passwd missing"}, a \in BOOLEAN }

NoFailure ==
    [cls |-> "<none>", status_code |-> 0, message |-> "",
     internal_details |-> NoDetails, ascii |-> TRUE]

HttpFailure(code) ==
    [cls |-> "HTTPException", status_code |-> code, message |-> "",
     internal_details |-> NoDetails, ascii |-> TRUE]

isinstance_APIException(e) == e.cls \in ApiClasses

\* APIException(message, internal_details=...)
APIException(message, details) ==
    [cls |-> "APIException", status_code |-> 500, message |-> message,
     internal_details |-> details, ascii |-> TRUE]

\* compose_error(exc, e): the body sent to the client
compose_error(exc, e) == [code |-> exc.status_code, message |-> exc.message]

\* A response object; body is the JSON document, written as its value.
Response(body, status, mimetype, by) ==
    [kind |-> "response", by |-> by, status |-> status,
     mimetype |-> mimetype, body |-> body]

EmptyBody == [code |-> 0, message |-> ""]

\* The handler returned None.
NoResponse(by) ==
    [kind |-> "none", by |-> by, status |-> 0, mimetype |-> "",
     body |-> EmptyBody]

\* The handler itself raised.
Raised(by) ==
    [kind |-> "raised", by |-> by, status |-> 0, mimetype |-> "",
     body |-> EmptyBody]

\* What a handler did: whether it logged, the exception it settled on,
\* and the response it produced.
Out(logged, exc, resp) == [logged |-> logged, exc |-> exc, resp |-> resp]

\* unicode(e) succeeds exactly on text the default codec decodes.
unicode_ok(e) == e.ascii
unicode(e) == e.message

\* Variant: every exception is wrapped, APIExceptions included.
exception_handler_wrap_all(e) ==
    IF unicode_ok(e)
    THEN LET exc == APIException("Server Error", unicode(e))
         IN  Out(TRUE, exc,
                 Response(compose_error(exc, e), exc.status_code,
                          "application/json", "exception_handler"))
    ELSE Out(FALSE, NoFailure, Raised("exception_handler"))

exception_handler(e) ==
    IF ~isinstance_APIException(e)
    THEN IF unicode_ok(e)
         THEN LET exc == APIException("Server Error", unicode(e))
              IN  Out(TRUE, exc,
                      Response(compose_error(exc, e), exc.status_code,
                               "application/json", "exception_handler"))
         ELSE Out(FALSE, NoFailure, Raised("exception_handler"))
    ELSE Out(TRUE, e,
             Response(compose_error(e, e), e.status_code,
                      "application/json", "exception_handler"))

\* Variant: the JSON branch answers with the status of the request error.
not_found_handler_bad_status(e, wants_json) ==
    IF wants_json
    THEN Out(TRUE, e,
             Response([code |-> 400, message |-> "Resource not found."],
                      400, "application/json", "not_found_handler"))
    ELSE Out(TRUE, e, NoResponse("not_found_handler"))

\* Variant: the JSON answer is given whatever the client accepts.
not_found_handler_always_json(e, wants_json) ==
    Out(TRUE, e,
        Response([code |-> 404, message |-> "Resource not found."],
                 404, "application/json", "not_found_handler"))

not_found_handler(e, wants_json) ==
    IF wants_json
    THEN Out(TRUE, e,
             Response([code |-> 404, message |-> "Resource not found."],
                      404, "application/json", "not_found_handler"))
    ELSE Out(TRUE, e, NoResponse("not_found_handler"))

bad_request_handler(e) ==
    Out(TRUE, e,
        Response([code |-> 400, message |-> "Bad request."],
                 400, "application/json", "bad_request_handler"))

\* A resource handler (blueprint view) that succeeds.
ResourceResponse ==
    Out(FALSE, NoFailure,
        Response([code |-> 200, message |-> "OK"], 200,
                 "application/json", "resource"))

\* Requests: the route they hit, the failure the view raises (if any) and
\* the result of request_wants_json() for them.
Requests ==
    { [route |-> "resource", failure |-> f, wants_json |-> w] :
        f \in ApiFailures \cup OtherFailures \cup {NoFailure}, w \in BOOLEAN }
    \cup
    { [route |-> r, failure |-> NoFailure, wants_json |-> w] :
        r \in {"unmatched", "malformed"}, w \in BOOLEAN }

NoRequest == [route |-> "<none>", failure |-> NoFailure, wants_json |-> FALSE]
NoOut == Out(FALSE, NoFailure, NoResponse("<none>"))

\* Variant: the handlers of 400 and 404 registered the other way round.
Dispatch_swapped(req) ==
    CASE req.route = "malformed" ->
            not_found_handler(HttpFailure(400), req.wants_json)
      [] req.route = "unmatched" -> bad_request_handler(HttpFailure(404))
      [] req.route = "resource" /\ req.failure # NoFailure ->
            exception_handler(req.failure)
      [] OTHER -> ResourceResponse

\* The error handlers registered on the application.
Dispatch(req) ==
    CASE req.route = "malformed" -> bad_request_handler(HttpFailure(400))
      [] req.route = "unmatched" ->
            not_found_handler(HttpFailure(404), req.wants_json)
      [] req.route = "resource" /\ req.failure # NoFailure ->
            exception_handler(req.failure)
      [] OTHER -> ResourceResponse


\* ------------------------------------------------------------------------
\* Service Discovery life cycle
\* ------------------------------------------------------------------------
Frame(fn) == [fn |-> fn, at |-> "deregister_app"]

Top == stack[Len(stack)]

Alive == pc # "terminated"

\* Some invocation of deregister_app is on the stack and has not returned.
Active ==
    \E i \in 1..Len(stack) :
        stack[i].at \in {"deregister_app", "deregister_service", "hung"}

\* Number of deregister calls in progress.
InProgress ==
    Cardinality({i \in 1..Len(stack) :
                    stack[i].at \in {"deregister_service", "hung"}})

\* The coordinator is Registered: create_app has returned, the publisher is
\* registered and the three hooks are armed.
Registered == served /\ registered /\ armed = AllHooks

Init ==
    /\ sdStatus \in {"ON", "OFF"}
    /\ vcap \in BOOLEAN
    /\ pc = "create_app"
    /\ registered = FALSE
    /\ armed = {}
    /\ stack = <<>>
    /\ exitCode = NoCode
    /\ signals = 0
    /\ regCalls = 0
    /\ deregCalls = 0
    /\ hbCalls = 0
    /\ regOutcome = "none"
    /\ served = FALSE
    /\ trigger = "none"
    /\ trigRegistered = FALSE
    /\ derEntered = 0
    /\ derReturned = 0
    /\ overlap = FALSE
    /\ derFailed = FALSE
    /\ unregSignal = FALSE
    /\ lastReq = NoRequest
    /\ lastOut = NoOut

\* The first shutdown trigger is remembered with the state it fired in.
NoteTrigger(kind) ==
    /\ trigger' = IF trigger = "none" THEN kind ELSE trigger
    /\ trigRegistered' = IF trigger = "none" THEN Registered ELSE trigRegistered

\* A handler that ends in deregister_app starts running on the main thread.
Enter(fn, below) ==
    /\ stack' = Append(below, Frame(fn))
    /\ derEntered' = derEntered + 1
    /\ overlap' = (overlap \/ (below = stack /\ Active))

\* The interpreter starts to shut down with the given status: the atexit
\* hooks run, here destroy_app if create_app registered it.
Finalize(code) ==
    /\ pc' = "finalize"
    /\ exitCode' = code
    /\ IF "atexit" \in armed
       THEN Enter("destroy_app", <<>>)
       ELSE /\ stack' = <<>>
            /\ UNCHANGED <<derEntered, overlap>>

\* An exception (SystemExit included) leaves the running frame.  Nothing
\* catches it on the way down, so every frame is abandoned.  Outside of the
\* shutdown it ends the main program with the given status.  Inside, the
\* atexit hook is over: an error is reported and the status stays as
\* decided, while the SystemExit of exit(0) makes the interpreter exit with
\* that status.
Unwind(code) ==
    IF pc = "finalize"
    THEN /\ stack' = <<>>
         /\ exitCode' = IF code = ExitOk THEN ExitOk ELSE exitCode
         /\ UNCHANGED <<pc, derEntered, overlap>>
    ELSE Finalize(code)

\* Variant: the two conditions joined by "or".
ShouldRegister_or(sd, vc) == sd = "ON" \/ vc

\* if Config.SD_STATUS == 'ON' and env.get('VCAP_APPLICATION') is not None
ShouldRegister(sd, vc) == sd = "ON" /\ vc

\* Variant: the test of the flag negated.
DeregisterGuard_negated(publisher, reg) == publisher # "None" /\ ~reg

\* Variant: only the publisher is tested, not its flag.
DeregisterGuard_no_flag(publisher, reg) == publisher # "None"

\* if publisher is not None and publisher.registered
DeregisterGuard(publisher, reg) == publisher # "None" /\ reg

\* Variant: the exit handlers are set up before the service is registered.
CreateApp_arm_first ==
    /\ pc = "create_app"
    /\ stack = <<>>
    /\ IF ShouldRegister(sdStatus, vcap)
       THEN pc' = "register" /\ served' = served /\ armed' = AllHooks
       ELSE pc' = "serving" /\ served' = TRUE /\ armed' = armed
    /\ UNCHANGED <<sdStatus, vcap, registered, stack, exitCode,
                   signals, regCalls, deregCalls, hbCalls, regOutcome,
                   trigger, trigRegistered, derEntered, derReturned, overlap,
                   derFailed>>
    /\ UNCHANGED unregSignal
    /\ UNCHANGED webVars

\* create_app up to the service discovery block
CreateApp ==
    /\ pc = "create_app"
    /\ stack = <<>>
    /\ IF ShouldRegister(sdStatus, vcap)
       THEN pc' = "register" /\ served' = served
       ELSE pc' = "serving" /\ served' = TRUE
    /\ UNCHANGED <<sdStatus, vcap, registered, armed, stack, exitCode,
                   signals, regCalls, deregCalls, hbCalls, regOutcome,
                   trigger, trigRegistered, derEntered, derReturned, overlap,
                   derFailed>>
    /\ UNCHANGED unregSignal
    /\ UNCHANGED webVars

\* Variant: a registration that did not take is tried again.
RegisterService_retry ==
    /\ pc = "register"
    /\ regCalls < 2
    /\ stack = <<>>
    /\ \E o \in RegisterOutcomes :
         /\ regOutcome' = o
         /\ regCalls' = regCalls + 1
         /\ registered' = (o = "registered")
         /\ IF o = "RegistryUnavailable"
            THEN Finalize(ExitError)
            ELSE /\ pc' = IF o = "not_registered" THEN "register" ELSE "arm_sigterm"
                 /\ UNCHANGED <<stack, exitCode, derEntered, overlap>>
    /\ UNCHANGED <<sdStatus, vcap, armed, signals, deregCalls, hbCalls,
                   served, trigger, trigRegistered, derReturned, derFailed>>
    /\ UNCHANGED unregSignal
    /\ UNCHANGED webVars

\* publisher.register_service(True)
RegisterService ==
    /\ pc = "register"
    /\ stack = <<>>
    /\ \E o \in RegisterOutcomes :
         /\ regOutcome' = o
         /\ regCalls' = regCalls + 1
         /\ registered' = (o = "registered")
         /\ IF o = "RegistryUnavailable"
            THEN Finalize(ExitError)
            ELSE /\ pc' = "arm_sigterm"
                 /\ UNCHANGED <<stack, exitCode, derEntered, overlap>>
    /\ UNCHANGED <<sdStatus, vcap, armed, signals, deregCalls, hbCalls,
                   served, trigger, trigRegistered, derReturned, derFailed>>
    /\ UNCHANGED unregSignal
    /\ UNCHANGED webVars

\* signal(SIGTERM, exit_app); signal(SIGINT, exit_app);
\* atexit.register(destroy_app, publisher); return logistics_wizard
ArmHook ==
    /\ stack = <<>>
    /\ \/ pc = "arm_sigterm" /\ armed' = armed \cup {"SIGTERM"}
          /\ pc' = "arm_sigint" /\ served' = served
       \/ pc = "arm_sigint" /\ armed' = armed \cup {"SIGINT"}
          /\ pc' = "arm_atexit" /\ served' = served
       \/ pc = "arm_atexit" /\ armed' = armed \cup {"atexit"}
          /\ pc' = "serving" /\ served' = TRUE
    /\ UNCHANGED <<sdStatus, vcap, registered, stack, exitCode, signals,
                   regCalls, deregCalls, hbCalls, regOutcome, trigger,
                   trigRegistered, derEntered, derReturned, overlap,
                   derFailed>>
    /\ UNCHANGED unregSignal
    /\ UNCHANGED webVars

\* The heartbeat thread started by register_service(True)
Heartbeat ==
    /\ Alive
    /\ registered
    /\ hbCalls < MaxHeartbeats
    /\ hbCalls' = hbCalls + 1
    /\ UNCHANGED <<sdStatus, vcap, pc, registered, armed, stack, exitCode,
                   signals, regCalls, deregCalls, regOutcome, served, trigger,
                   trigRegistered, derEntered, derReturned, overlap,
                   derFailed>>
    /\ UNCHANGED unregSignal
    /\ UNCHANGED webVars

\* A request is served by the running application.
HandleRequest ==
    /\ pc = "serving"
    /\ stack = <<>>
    /\ \E req \in Requests :
         /\ lastReq' = req
         /\ lastOut' = Dispatch(req)
    /\ UNCHANGED lifeVars

\* The main program ends normally.
NormalExit ==
    /\ pc = "serving"
    /\ stack = <<>>
    /\ NoteTrigger("normal")
    /\ Finalize(ExitOk)
    /\ UNCHANGED <<sdStatus, vcap, registered, armed, signals, regCalls,
                   deregCalls, hbCalls, regOutcome, served, derReturned,
                   derFailed>>
    /\ UNCHANGED unregSignal
    /\ UNCHANGED webVars

\* SIGTERM or SIGINT is delivered.  With exit_app installed for it the
\* handler starts on top of what the main thread is doing (which during the
\* shutdown is only the atexit hook).  Otherwise the default disposition
\* applies: SIGTERM kills the process, SIGINT raises KeyboardInterrupt.
Signal ==
    /\ Alive
    /\ signals < MaxSignals
    /\ signals' = signals + 1
    /\ \E sig \in Signals :
         /\ NoteTrigger(sig)
         /\ unregSignal' = (unregSignal \/ (armed = AllHooks /\ ~registered))
         /\ IF sig \in armed
            THEN /\ pc = "finalize" => stack # <<>>
                 /\ Enter("exit_app", stack)
                 /\ UNCHANGED <<pc, exitCode>>
            ELSE IF sig = "SIGTERM"
                 THEN /\ pc' = "terminated"
                      /\ exitCode' = ExitKilled
                      /\ stack' = <<>>
                      /\ UNCHANGED <<derEntered, overlap>>
                 ELSE /\ pc = "finalize" => stack # <<>>
                      /\ Unwind(ExitError)
    /\ UNCHANGED <<sdStatus, vcap, registered, armed, regCalls, deregCalls,
                   hbCalls, regOutcome, served, derReturned, derFailed>>
    /\ UNCHANGED webVars

\* deregister_app: the test of publisher.registered and, when it holds,
\* the start of publisher.deregister_service()
DeregisterApp ==
    /\ stack # <<>>
    /\ Top.at = "deregister_app"
    /\ IF DeregisterGuard("publisher", registered)
       THEN /\ deregCalls' = deregCalls + 1
            /\ stack' = [stack EXCEPT ![Len(stack)].at = "deregister_service"]
            /\ UNCHANGED derReturned
       ELSE /\ stack' = [stack EXCEPT ![Len(stack)].at = "return"]
            /\ derReturned' = derReturned + 1
            /\ UNCHANGED deregCalls
    /\ UNCHANGED <<sdStatus, vcap, pc, registered, armed, exitCode, signals,
                   regCalls, hbCalls, regOutcome, served, trigger,
                   trigRegistered, derEntered, overlap, derFailed>>
    /\ UNCHANGED unregSignal
    /\ UNCHANGED webVars

\* publisher.deregister_service() completes
DeregisterService ==
    /\ stack # <<>>
    /\ Top.at = "deregister_service"
    /\ \E o \in DeregisterOutcomes :
         /\ registered' = IF o = "deregistered" THEN FALSE ELSE registered
         /\ derFailed' = (derFailed \/ o = "RegistryUnavailable")
         /\ CASE o = "RegistryUnavailable" ->
                    /\ Unwind(ExitError)
                    /\ UNCHANGED derReturned
              [] o = "no_answer" ->
                    /\ stack' = [stack EXCEPT ![Len(stack)].at = "hung"]
                    /\ UNCHANGED <<pc, exitCode, derEntered, derReturned,
                                   overlap>>
              [] OTHER ->
                    /\ stack' = [stack EXCEPT ![Len(stack)].at = "return"]
                    /\ derReturned' = derReturned + 1
                    /\ UNCHANGED <<pc, exitCode, derEntered, overlap>>
    /\ UNCHANGED <<sdStatus, vcap, armed, signals, regCalls, deregCalls,
                   hbCalls, regOutcome, served, trigger, trigRegistered>>
    /\ UNCHANGED unregSignal
    /\ UNCHANGED webVars

\* Variant: exit(1) instead of exit(0).
ExitApp_status_1 ==
    /\ stack # <<>>
    /\ Top.fn = "exit_app"
    /\ Top.at = "return"
    /\ Unwind(ExitError)
    /\ UNCHANGED <<sdStatus, vcap, registered, armed, signals, regCalls,
                   deregCalls, hbCalls, regOutcome, served, trigger,
                   trigRegistered, derReturned, derFailed>>
    /\ UNCHANGED unregSignal
    /\ UNCHANGED webVars

\* exit_app after deregister_app(publisher): exit(0)
ExitApp ==
    /\ stack # <<>>
    /\ Top.fn = "exit_app"
    /\ Top.at = "return"
    /\ Unwind(ExitOk)
    /\ UNCHANGED <<sdStatus, vcap, registered, armed, signals, regCalls,
                   deregCalls, hbCalls, regOutcome, served, trigger,
                   trigRegistered, derReturned, derFailed>>
    /\ UNCHANGED unregSignal
    /\ UNCHANGED webVars

\* destroy_app returns to atexit
DestroyApp ==
    /\ stack # <<>>
    /\ Top.fn = "destroy_app"
    /\ Top.at = "return"
    /\ stack' = SubSeq(stack, 1, Len(stack) - 1)
    /\ UNCHANGED <<sdStatus, vcap, pc, registered, armed, exitCode, signals,
                   regCalls, deregCalls, hbCalls, regOutcome, served, trigger,
                   trigRegistered, derEntered, derReturned, overlap,
                   derFailed>>
    /\ UNCHANGED unregSignal
    /\ UNCHANGED webVars

\* The shutdown is over and the process ends with the status decided.
Terminate ==
    /\ pc = "finalize"
    /\ stack = <<>>
    /\ pc' = "terminated"
    /\ UNCHANGED <<sdStatus, vcap, registered, armed, stack, exitCode,
                   signals, regCalls, deregCalls, hbCalls, regOutcome, served,
                   trigger, trigRegistered, derEntered, derReturned, overlap,
                   derFailed>>
    /\ UNCHANGED unregSignal
    /\ UNCHANGED webVars

Next ==
    \/ CreateApp
    \/ RegisterService
    \/ ArmHook
    \/ Heartbeat
    \/ HandleRequest
    \/ NormalExit
    \/ Signal
    \/ DeregisterApp
    \/ DeregisterService
    \/ ExitApp
    \/ DestroyApp
    \/ Terminate

Spec == Init /\ [][Next]_vars

\* The steps of the program itself are taken when they can be; signals,
\* requests, the end of the main program and the heartbeat are not forced.
Fairness ==
    /\ WF_vars(CreateApp)
    /\ WF_vars(RegisterService)
    /\ WF_vars(ArmHook)
    /\ WF_vars(DeregisterApp)
    /\ WF_vars(DeregisterService)
    /\ WF_vars(ExitApp)
    /\ WF_vars(DestroyApp)
    /\ WF_vars(Terminate)

FairSpec == Spec /\ Fairness

TypeOK ==
    /\ pc \in {"create_app", "register", "arm_sigterm", "arm_sigint",
               "arm_atexit", "serving", "finalize", "terminated"}
    /\ registered \in BOOLEAN
    /\ armed \subseteq AllHooks
    /\ exitCode \in {NoCode, ExitOk, ExitError, ExitKilled}
    /\ signals \in 0..MaxSignals
    /\ lastReq \in Requests \cup {NoRequest}
    /\ unregSignal \in BOOLEAN

\* ------------------------------------------------------------------------
\* Properties
\* ------------------------------------------------------------------------

\* C1: in every execution publisher.deregister_service is called at most
\* once, whatever shutdown triggers fire and however they interleave.
C1_AtMostOneDeregister == deregCalls <= 1

\* C2: from Registered, two invocations of deregister_app in sequence, the
\* second starting after the first has returned, make exactly one call of
\* publisher.deregister_service.
C2_TwiceInSequenceOneCall ==
    (trigRegistered /\ ~overlap /\ derEntered = 2 /\ derReturned = 2)
        => deregCalls = 1

\* C3: once the coordinator is Registered, a process that ends by normal
\* exit, SIGTERM or SIGINT has called publisher.deregister_service before
\* it terminates.
C3_EveryShutdownPathDeregisters ==
    (pc = "terminated" /\ trigRegistered) => deregCalls >= 1

C3_Witness ==
    /\ pc = "terminated"
    /\ trigRegistered
    /\ trigger = "SIGTERM"
    /\ deregCalls = 1

\* C4: a failed register call is not fatal: no shutdown hook is armed and
\* create_app still returns the application.
C4_RegisterFailureNotFatal ==
    regOutcome \in {"RegistryUnavailable", "not_registered"}
        => /\ armed = {}
           /\ pc \in {"finalize", "terminated"} => served

\* C5: the register call is reached only with SD_STATUS = 'ON' and
\* VCAP_APPLICATION present; otherwise no register, heartbeat or deregister
\* call is ever made and no shutdown hook is armed.
C5_DisabledIsNoOp ==
    (sdStatus # "ON" \/ ~vcap)
        => /\ pc # "register"
           /\ regCalls = 0
           /\ hbCalls = 0
           /\ deregCalls = 0
           /\ armed = {}
           /\ stack = <<>>

C5_Witness ==
    /\ sdStatus = "ON"
    /\ ~vcap
    /\ signals > 0
    /\ pc = "terminated"

\* C6: a shutdown triggered by SIGTERM or SIGINT in the Registered state
\* ends the process with exit code 0, whether the deregister call succeeded
\* or failed.
C6_SignalShutdownExitsZero ==
    (pc = "terminated" /\ trigger \in Signals /\ trigRegistered)
        => exitCode = ExitOk

\* A well-formed JSON error response: status code, JSON content type, body
\* with code and message.
JsonError(resp) ==
    /\ resp.kind = "response"
    /\ resp.mimetype = "application/json"
    /\ resp.status \in 400..599
    /\ resp.body.code = resp.status
    /\ resp.body.message # ""

\* C7: every request ends with the resource handler's response or with a
\* well-formed JSON error response.
C7_EveryResponseWellFormed ==
    lastReq # NoRequest
        => \/ lastOut.resp.kind = "response" /\ lastOut.resp.by = "resource"
           \/ JsonError(lastOut.resp)

\* C8: a failure that is not an APIException gets status 500 and the
\* message "Server Error"; its string rendering is kept in internal_details
\* and is not the message.
C8_UntypedFailureIsServerError ==
    (lastReq.route = "resource" /\ lastReq.failure \in OtherFailures)
        => /\ lastOut.resp.kind = "response"
           /\ lastOut.resp.status = 500
           /\ lastOut.resp.body.message = "Server Error"
           /\ lastOut.exc.internal_details = lastReq.failure.message
           /\ lastOut.resp.body.message # lastReq.failure.message

\* C9: a failure that is an APIException is passed through unchanged and
\* the response carries that exception's own status code.
C9_ApiExceptionPassedThrough ==
    (lastReq.route = "resource" /\ lastReq.failure \in ApiFailures)
        => /\ lastOut.exc = lastReq.failure
           /\ lastOut.resp.kind = "response"
           /\ lastOut.resp.status = lastReq.failure.status_code
           /\ lastOut.resp.status \in ApiStatus[lastReq.failure.cls]

C9_Witness ==
    /\ lastReq.route = "resource"
    /\ lastReq.failure \in ApiFailures
    /\ lastReq.failure.cls = "AuthenticationError"
    /\ lastOut.resp.status = 403

\* C10: an unmatched route with request_wants_json() true gets status 404,
\* JSON content type and the body {"code": 404, "message": "Resource not
\* found."}.
C10_UnmatchedJsonIs404 ==
    (lastReq.route = "unmatched" /\ lastReq.wants_json)
        => /\ lastOut.resp.kind = "response"
           /\ lastOut.resp.status = 404
           /\ lastOut.resp.mimetype = "application/json"
           /\ lastOut.resp.body = [code |-> 404, message |-> "Resource not found."]

C10_Witness ==
    /\ lastReq.route = "unmatched"
    /\ lastReq.wants_json
    /\ lastOut.resp.by = "not_found_handler"
    /\ lastOut.resp.kind = "response"

C12_MalformedIs400 ==
    lastReq.route = "malformed"
        => /\ lastOut.resp.kind = "response"
           /\ lastOut.resp.by = "bad_request_handler"
           /\ lastOut.resp.status = 400
           /\ lastOut.resp.mimetype = "application/json"
           /\ lastOut.resp.body = [code |-> 400, message |-> "Bad request."]

C12_Witness ==
    /\ lastReq.route = "malformed"
    /\ ~lastReq.wants_json
    /\ lastOut.resp.status = 400

\* C13: publisher.register_service is called at most once, and once a
\* deregistration has started or the registration has failed it is never
\* called again.
C13_RegisterOneShot ==
    /\ [](regCalls <= 1)
    /\ [][(derEntered > 0 \/ regOutcome # "none") => regCalls' = regCalls]_vars

C13_Witness ==
    /\ regCalls = 1
    /\ deregCalls >= 1
    /\ pc = "terminated"

\* C15: deregister_app clears the registered flag before the deregister
\* call is issued, so the flag is false whenever a call is in progress.
C15_FlagClearedBeforeCall == InProgress > 0 => ~registered

\* C16: every failure a handler intercepts is logged, and logged before
\* the response is built.
C16_LoggedFirst ==
    lastOut.resp.by \in {"exception_handler", "not_found_handler",
                         "bad_request_handler"}
        => lastOut.logged

\* C17: a signal in the Registered state enters deregister_app twice, from
\* exit_app and then from the atexit hook destroy_app; the entry from
\* destroy_app calls publisher.deregister_service exactly when the flag is
\* still set, so a flag that is never cleared means a second call.
C17_SignalPathEntersTwice ==
    /\ []((pc \in {"finalize", "terminated"} /\ trigRegistered
             /\ trigger \in Signals) => derEntered >= 2)
    /\ []((pc = "terminated" /\ trigRegistered /\ trigger \in Signals
             /\ registered) => deregCalls >= 2)
    /\ [][(/\ stack # <<>>
           /\ Top = [fn |-> "destroy_app", at |-> "deregister_app"]
           /\ Len(stack') = Len(stack)
           /\ stack' # stack)
          => ((deregCalls' = deregCalls + 1) <=> registered)]_vars

C17_Witness ==
    /\ pc = "terminated"
    /\ trigRegistered
    /\ trigger \in Signals
    /\ signals = 1
    /\ registered
    /\ ~derFailed
    /\ derEntered = 2
    /\ deregCalls = 2

\* C19: no deregistration precedes the register call: the hooks are armed
\* only after publisher.register_service has returned, and a signal that
\* arrives before cannot reach deregister_app.
C19_NoDeregisterBeforeRegister ==
    /\ (armed # {} \/ derEntered > 0 \/ deregCalls > 0)
          => regOutcome \in {"registered", "not_registered"}
    /\ pc \in {"create_app", "register"} => stack = <<>>

C19_Witness ==
    /\ regCalls = 0
    /\ trigger \in Signals
    /\ ShouldRegister(sdStatus, vcap)
    /\ pc = "terminated"
    /\ derEntered = 0

\* C14: a deregistration attempt does not block the shutdown for ever:
\* once a shutdown trigger has fired in the Registered state the process
\* terminates, also when the registry never answers.
C14_ShutdownNotBlocked == trigRegistered ~> (pc = "terminated")

\* C18: a signal that meets the armed hooks while the publisher is not
\* registered leads to no deregister call, and the process terminates with
\* exit code 0.
C18_UnregisteredSignalExitsZero ==
    /\ [][~registered => deregCalls' = deregCalls]_vars
    /\ []((pc = "terminated" /\ unregSignal) => exitCode = ExitOk)
    /\ unregSignal ~> (pc = "terminated")

C18_Witness ==
    /\ unregSignal
    /\ regOutcome = "not_registered"
    /\ deregCalls = 0
    /\ pc = "terminated"
    /\ exitCode = ExitOk

====
